---- MODULE Spec2Model ----
(***************************************************************************)
(* A model of distutils644 (src/env/Lib/site-packages/distutils644.py):    *)
(* the monkey-patching layer that normalizes ownership, permissions and    *)
(* directory order in the archives distutils generates.                    *)
(*                                                                         *)
(* The module holds several specifications over one set of variables; each *)
(* one starts the parts it does not exercise in a fixed idle state and     *)
(* leaves them unchanged.                                                  *)
(*   SpecMode   normalize_mode as a pure function of a raw mode            *)
(*   SpecStat   the substituted os.lstat / os.stat and StatResult644       *)
(*   SpecInstall  install() and the registry of archive formats            *)
(*   SpecWheel  WheelFile.write / writestr with the post-write fixup       *)
(*   SpecWalk   os_walk over one tree under two directory orders           *)
(*   SpecBuild  calls of the normalized make_tarball / make_zipfile and    *)
(*              of archive_wheelfile, with the scopes they open on os      *)
(*   SpecRepro  two builds of one tree under different owners and modes    *)
(***************************************************************************)
EXTENDS Integers, Sequences, FiniteSets, TLC

VARIABLES
    m_in,       \* normalize_mode: the raw mode handed to the first call
    m_once,     \* normalize_mode(m_in), NotYet before the call
    m_twice,    \* normalize_mode(normalize_mode(m_in)), NotYet before the call
    st_raw,     \* what _orig_os_lstat and _orig_os_stat do for the path: a
                \* stat_result (its 10 indexed fields) or a failure
    st_fn,      \* the substitute called last: "lstat", "stat" or "none"
    st_ret,     \* the StatResult644 that call returned, or NoResult
    st_err,     \* the exception that call raised, or "none"
    ARCHIVE_FORMATS,    \* distutils.archive_util.ARCHIVE_FORMATS: format name
                        \* -> <<handler, extra arguments, description>>
    wheel_mode,         \* which wheel the module found at import: "absent",
                        \* "legacy" (bdist_wheel.archive_wheelfile exists) or
                        \* "wheelfile" (WheelFile.write / writestr)
    wheel_attr,         \* the functions bound to wheel's three patched names
    n_installs,         \* the install() calls made so far
    tar_classes,        \* the tar writer classes: class -> its format attribute
    filelist,           \* WheelFile.filelist: the ZipInfo entries, in order
    written_by,         \* for each entry, the public method that appended it
    fix_before,         \* the entries as they were when the last fixup began
    w_order,    \* for each of two walks, the order in which the filesystem
                \* returns each directory's subdirectories and files
    w_topdown,  \* the topdown argument both walks are called with
    w_run,      \* the walk in progress or last made: 0 (none yet), 1 or 2
    w_gen,      \* that walk's generator: "none", "active" or "exhausted"
    w_stack,    \* the frames of the underlying os.walk, innermost last
    w_out,      \* for each walk, the triples os_walk has yielded
    os_mod,         \* the os module: primitive name -> the function bound to it
    func_original,  \* the substitutes whose attribute "original" has been set
    sys_modules,    \* sys.modules: module name -> module
    b_stack,        \* for each thread, its frames of make_tarball,
                    \* make_zipfile and archive_wheelfile, innermost last
    b_trees,        \* the directory tree each of the builds archives
    b_build,        \* the number of the running or last build (0: none yet)
    b_archive,      \* for each build, the entries written to its archive
    b_status,       \* for each build: "none", "running", "returned", "raised"
    b_lock,         \* the host's build lock: the thread that holds it, or "free"
    b_locking,      \* whether the host runs every build inside that lock
    n_stack,        \* the open monkeypatch scopes of nested with blocks, outermost first
    n_pre           \* the os module as it was before any scope was opened

modeVars == <<m_in, m_once, m_twice>>
statVars == <<st_raw, st_fn, st_ret, st_err>>
installVars == <<ARCHIVE_FORMATS, wheel_mode, wheel_attr, n_installs, tar_classes>>
wheelVars == <<filelist, written_by, fix_before>>
walkVars == <<w_order, w_topdown, w_run, w_gen, w_stack, w_out>>
nestVars == <<n_stack, n_pre>>
buildVars ==
    <<os_mod, func_original, sys_modules, b_stack, b_trees, b_build, b_archive, b_status,
      b_lock, b_locking, nestVars>>
vars == <<modeVars, statVars, installVars, wheelVars, walkVars, buildVars>>

\* The value of a mode variable that no call has computed yet (modes are >= 0).
NotYet == 0 - 1

(***************************************************************************)
(* Bounds.                                                                 *)
(***************************************************************************)
\* Raw modes are the naturals below 2^ModeBits: 9 permission bits, the
\* setuid/setgid/sticky bits and the 4 file-type bits of a 16-bit st_mode.
ModeBits == 16
\* install() is called at most MaxInstalls times.
MaxInstalls == 3
\* A wheel archive receives at most MaxEntries entries.
MaxEntries == 3
\* A walked tree's root holds at most MaxDirs subdirectories.
MaxDirs == 2

(***************************************************************************)
(* Python's integer bit operators on naturals.                             *)
(***************************************************************************)
RECURSIVE BitAnd(_, _)
BitAnd(a, b) ==
    IF a = 0 \/ b = 0 THEN 0
    ELSE (a % 2) * (b % 2) + 2 * BitAnd(a \div 2, b \div 2)

RECURSIVE BitOr(_, _)
BitOr(a, b) ==
    IF a = 0 THEN b
    ELSE IF b = 0 THEN a
    ELSE (IF a % 2 = 1 \/ b % 2 = 1 THEN 1 ELSE 0) + 2 * BitOr(a \div 2, b \div 2)

\* a & ~b for naturals a, b (Python's ~b is the infinite-width complement).
BitAndNot(a, b) == a - BitAnd(a, b)

RECURSIVE Pow2(_)
Pow2(n) == IF n = 0 THEN 1 ELSE 2 * Pow2(n - 1)

\* An integer too wide for TLC's 32-bit integers (a ZipInfo's
\* external_attr) is kept exactly, as hi * 2^16 + lo with lo < 2^16.
Wide(hi, lo) == [hi |-> hi, lo |-> lo]
\* a >> 16, a & 0xFFFF, a | b on wide integers, and m << 16 of a natural m
WideShiftRight16(a) == a.hi
WideAndFFFF(a) == Wide(0, a.lo)
WideOr(a, b) == Wide(BitOr(a.hi, b.hi), BitOr(a.lo, b.lo))
ShiftLeft16(m) == Wide(m, 0)

(***************************************************************************)
(* The octal literals of the source.                                       *)
(***************************************************************************)
O77 == 63           \* 0o77
O644 == 420         \* 0o644
O100 == 64          \* 0o100
O111 == 73          \* 0o111
O100644 == 33188    \* 0o100644

\* Written out for the claims: 0o755, 0o011 and the 9 permission bits 0o777.
O755 == BitOr(O644, O111)
O011 == BitAnd(O111, O77)
PermMask == BitOr(O77, 448)

(***************************************************************************)
(* normalize_mode                                                          *)
(***************************************************************************)
\* A slip that skips the masking of the group and other bits.
normalize_mode_nomask(mode) ==
    LET m2 == BitOr(mode, O644)
    IN  IF BitAnd(m2, O100) # 0 THEN BitOr(m2, O111) ELSE m2

\* A slip that never propagates the execute bit.
normalize_mode_noexec(mode) ==
    BitOr(BitAndNot(mode, O77), O644)

\* A slip that inverts the test of the owner-execute bit.
normalize_mode_inverted(mode) ==
    LET m1 == BitAndNot(mode, O77)
        m2 == BitOr(m1, O644)
    IN  IF BitAnd(m2, O100) = 0 THEN BitOr(m2, O111) ELSE m2

normalize_mode(mode) ==
    LET m1 == BitAndNot(mode, O77)      \* mode &= ~0o77
        m2 == BitOr(m1, O644)           \* mode |= 0o644
    IN  IF BitAnd(m2, O100) # 0         \* if mode & 0o100:
        THEN BitOr(m2, O111)            \*     mode |= 0o111
        ELSE m2

(***************************************************************************)
(* SpecMode: normalize_mode applied once, then again to its own result.    *)
(***************************************************************************)
RawModes == 0 .. (Pow2(ModeBits) - 1)

ModeInit ==
    /\ m_in \in RawModes
    /\ m_once = NotYet
    /\ m_twice = NotYet

ModeIdle ==
    /\ m_in = 0
    /\ m_once = NotYet
    /\ m_twice = NotYet

NormalizeOnce ==
    /\ m_once = NotYet
    /\ m_once' = normalize_mode(m_in)
    /\ UNCHANGED <<m_in, m_twice, statVars, installVars, wheelVars, walkVars, buildVars>>

NormalizeTwice ==
    /\ m_once # NotYet
    /\ m_twice = NotYet
    /\ m_twice' = normalize_mode(m_once)
    /\ UNCHANGED <<m_in, m_once, statVars, installVars, wheelVars, walkVars, buildVars>>

NextMode ==
    \/ NormalizeOnce
    \/ NormalizeTwice

(***************************************************************************)
(* StatResult644, os_lstat, os_stat                                        *)
(***************************************************************************)
\* The indexes of a stat_result (the stat module's ST_* constants).
ST_MODE == 0
ST_INO == 1
ST_DEV == 2
ST_NLINK == 3
ST_UID == 4
ST_GID == 5
ST_SIZE == 6
ST_ATIME == 7
ST_MTIME == 8
ST_CTIME == 9

StatIndexes == ST_MODE .. ST_CTIME

\* The attribute of a stat_result that names each indexed field.
StatAttrs ==
    {"st_mode", "st_ino", "st_dev", "st_nlink", "st_uid", "st_gid",
     "st_size", "st_atime", "st_mtime", "st_ctime"}

AttrIndex(attr) ==
    CASE attr = "st_mode" -> ST_MODE
      [] attr = "st_ino" -> ST_INO
      [] attr = "st_dev" -> ST_DEV
      [] attr = "st_nlink" -> ST_NLINK
      [] attr = "st_uid" -> ST_UID
      [] attr = "st_gid" -> ST_GID
      [] attr = "st_size" -> ST_SIZE
      [] attr = "st_atime" -> ST_ATIME
      [] attr = "st_mtime" -> ST_MTIME
      [] attr = "st_ctime" -> ST_CTIME

\* original[n] and getattr(original, attr) of a raw stat_result, kept as the
\* sequence of its 10 fields (Python indexes from 0).
RawGetItem(original, n) == original[n + 1]
RawGetAttr(original, attr) == RawGetItem(original, AttrIndex(attr))

\* StatResult644.__init__
StatResult644(original) == [original |-> original]

\* the properties st_mode, st_uid, st_gid
StatResult644_st_mode(self) == normalize_mode(RawGetAttr(self.original, "st_mode"))
StatResult644_st_uid(self) == 0
StatResult644_st_gid(self) == 0

\* StatResult644.__getattr__: reached only for a name that is no property
StatResult644_getattr(self, attr) == RawGetAttr(self.original, attr)

\* Attribute access self.attr: the class's properties first, __getattr__ last.
StatResult644_attribute(self, attr) ==
    CASE attr = "st_mode" -> StatResult644_st_mode(self)
      [] attr = "st_uid" -> StatResult644_st_uid(self)
      [] attr = "st_gid" -> StatResult644_st_gid(self)
      [] OTHER -> StatResult644_getattr(self, attr)

\* A slip that zeroes the owner index only.
StatResult644_getitem_uidonly(self, n) ==
    IF n = ST_MODE THEN StatResult644_st_mode(self)
    ELSE IF n \in {ST_UID} THEN 0
    ELSE RawGetItem(self.original, n)

\* StatResult644.__getitem__
StatResult644_getitem(self, n) ==
    IF n = ST_MODE THEN StatResult644_st_mode(self)
    ELSE IF n \in {ST_UID, ST_GID} THEN 0
    ELSE RawGetItem(self.original, n)

(***************************************************************************)
(* SpecStat: one path, looked up through the substituted os.lstat and      *)
(* os.stat. The raw lookups may differ (a symbolic link) and may fail.     *)
(***************************************************************************)
\* 0o100640, 0o100755, 0o040750, 0o120777, 0o104711
SampleModes == {33184, 33261, 16872, 41471, 35273}
SampleIds == {0, 1000, 65534}

\* <<st_mode, st_ino, st_dev, st_nlink, st_uid, st_gid, st_size, st_atime,
\*   st_mtime, st_ctime>>
RawStats ==
    { <<md, 12, 2049, 1, uid, gid, sz, 30, 20, 10>> :
        md \in SampleModes, uid \in SampleIds, gid \in SampleIds, sz \in {0, 7} }

\* What a raw lookup does: return a stat_result, or raise an OSError, which
\* err names.
Errors == {"FileNotFoundError", "PermissionError"}
Success(st) == [ok |-> TRUE, st |-> st, err |-> "none"]
Failure(err) == [ok |-> FALSE, st |-> <<>>, err |-> err]
RawOutcomes ==
    { Success(r) : r \in RawStats } \cup { Failure(e) : e \in Errors }

NoResult == [original |-> <<>>]

\* A substitute that catches the failure and answers with an empty record.
os_stat_body_suppressed(outcome) ==
    IF outcome.ok
    THEN [ret |-> StatResult644(outcome.st), err |-> "none"]
    ELSE [ret |-> StatResult644(<<0, 0, 0, 0, 0, 0, 0, 0, 0, 0>>), err |-> "none"]

\* return StatResult644(_orig_os_lstat(path)), and the same for os_stat: no
\* try, so a failure of the raw lookup leaves the function as the exception
\* raised, before StatResult644 is called.
os_stat_body(outcome) ==
    IF outcome.ok
    THEN [ret |-> StatResult644(outcome.st), err |-> "none"]
    ELSE [ret |-> NoResult, err |-> outcome.err]

StatInit ==
    /\ st_raw \in [{"lstat", "stat"} -> RawOutcomes]
    /\ st_fn = "none"
    /\ st_ret = NoResult
    /\ st_err = "none"

StatIdle ==
    /\ st_raw = [f \in {"lstat", "stat"} |-> Failure("FileNotFoundError")]
    /\ st_fn = "none"
    /\ st_ret = NoResult
    /\ st_err = "none"

\* st = orig(path); return StatResult644(st)
StatCall(fn, orig) ==
    /\ st_fn' = fn
    /\ st_ret' = os_stat_body(orig).ret
    /\ st_err' = os_stat_body(orig).err
    /\ UNCHANGED <<st_raw, modeVars, installVars, wheelVars, walkVars, buildVars>>

\* os_lstat(path)
os_lstat == StatCall("lstat", st_raw["lstat"])

\* os_stat(path)
os_stat == StatCall("stat", st_raw["stat"])

NextStat ==
    \/ os_lstat
    \/ os_stat

(***************************************************************************)
(* install(): the format registry and the wheel hooks                      *)
(***************************************************************************)
\* Function objects, by identity. gen tells apart the closures that
\* different install() calls define (0: not a closure of install).
Func(name) == [name |-> name, gen |-> 0]
Closure(name, gen) == [name |-> name, gen |-> gen]

\* distutils.archive_util.make_tarball, make_zipfile, and a handler that
\* somebody else registered
stock_make_tarball == Func("distutils.archive_util.make_tarball")
stock_make_zipfile == Func("distutils.archive_util.make_zipfile")
other_handler == Func("other_handler")

\* A slip that compares handlers by what they build, not by identity, and so
\* replaces the closure of an earlier install() as well.
patch_format_byname(fmt, make_tarball, make_zipfile) ==
    LET func == fmt[1]
        new == IF func = stock_make_tarball \/ func.name = make_tarball.name
               THEN make_tarball
               ELSE IF func = stock_make_zipfile \/ func.name = make_zipfile.name
               THEN make_zipfile
               ELSE func
    IN  <<new>> \o Tail(fmt)

\* A slip that cuts the tuple one field too far.
patch_format_cut(fmt, make_tarball, make_zipfile) ==
    LET func == fmt[1]
        new == IF func = stock_make_tarball THEN make_tarball
               ELSE IF func = stock_make_zipfile THEN make_zipfile
               ELSE func
    IN  IF new = func THEN fmt ELSE <<new>> \o Tail(Tail(fmt))

\* install.patch_format, with the closures of the running install() call
patch_format(fmt, make_tarball, make_zipfile) ==
    LET func == fmt[1]                                      \* func = fmt[0]
        new == IF func = stock_make_tarball THEN make_tarball
               ELSE IF func = stock_make_zipfile THEN make_zipfile
               ELSE func
    IN  <<new>> \o Tail(fmt)                                \* (func,) + fmt[1:]

\* The wrappers the module defines once, at import.
archive_wheelfile == Func("distutils644.archive_wheelfile")
WheelFile_write == Func("distutils644.WheelFile_write")
WheelFile_writestr == Func("distutils644.WheelFile_writestr")
NoFunc == Func("n/a")

\* wheel's own functions, as bound before any install()
WheelOriginal(mode) ==
    CASE mode = "legacy" ->
            [archive_wheelfile |-> Func("wheel.bdist_wheel.archive_wheelfile"),
             write |-> NoFunc, writestr |-> NoFunc]
      [] mode = "wheelfile" ->
            [archive_wheelfile |-> NoFunc,
             write |-> Func("wheel.wheelfile.WheelFile.write"),
             writestr |-> Func("wheel.wheelfile.WheelFile.writestr")]
      [] OTHER ->
            [archive_wheelfile |-> NoFunc, write |-> NoFunc, writestr |-> NoFunc]

\* if wheel is not None: ... (the tail of install)
install_wheel(mode, attr) ==
    CASE mode = "legacy" -> [attr EXCEPT !.archive_wheelfile = archive_wheelfile]
      [] mode = "wheelfile" ->
            [attr EXCEPT !.write = WheelFile_write, !.writestr = WheelFile_writestr]
      [] OTHER -> attr

\* tarfile.TarFile, and the class TarFile644 an install() call defines
TarFile == Func("tarfile.TarFile")
TarFile644(gen) == Closure("TarFile644", gen)

\* tarfile.DEFAULT_FORMAT, which the stock class has for its format: GNU tar
\* or, from Python 3.8 on, pax
DefaultFormats == {"GNU_FORMAT", "PAX_FORMAT"}
StockClasses(default) == [c \in {TarFile} |-> default]

\* class TarFile644(tarfile.TarFile): format = tarfile.USTAR_FORMAT
\* The subclass gets an attribute of its own; the base class keeps its own.
define_TarFile644(classes, gen) ==
    [c \in DOMAIN classes \cup {TarFile644(gen)} |->
        IF c = TarFile644(gen) THEN "USTAR_FORMAT" ELSE classes[c]]

FormatNames == {"gztar", "tar", "zip", "7z"}
FormatEntries ==
    { <<f, a, "description">> :
        f \in {stock_make_tarball, stock_make_zipfile, other_handler},
        a \in {"compress=gzip", "compress=None"} }

InstallInit ==
    /\ \E names \in SUBSET FormatNames :
          /\ names # {}
          /\ ARCHIVE_FORMATS \in [names -> FormatEntries]
    /\ wheel_mode \in {"absent", "legacy", "wheelfile"}
    /\ wheel_attr = WheelOriginal(wheel_mode)
    /\ n_installs = 0
    /\ \E default \in DefaultFormats : tar_classes = StockClasses(default)

InstallIdle ==
    /\ ARCHIVE_FORMATS = [n \in {"tar"} |-> <<stock_make_tarball, "compress=None", "description">>]
    /\ wheel_mode = "absent"
    /\ wheel_attr = WheelOriginal("absent")
    /\ n_installs = 0
    /\ tar_classes = StockClasses("GNU_FORMAT")

\* install()
install ==
    /\ n_installs < MaxInstalls
    /\ n_installs' = n_installs + 1
    /\ LET make_tarball == Closure("make_tarball", n_installs + 1)
           make_zipfile == Closure("make_zipfile", n_installs + 1)
       IN  ARCHIVE_FORMATS' =
               [key \in DOMAIN ARCHIVE_FORMATS |->
                   patch_format(ARCHIVE_FORMATS[key], make_tarball, make_zipfile)]
    /\ wheel_attr' = install_wheel(wheel_mode, wheel_attr)
    /\ tar_classes' = define_TarFile644(tar_classes, n_installs + 1)
    /\ UNCHANGED <<wheel_mode, modeVars, statVars, wheelVars, walkVars, buildVars>>

NextInstall == install

(***************************************************************************)
(* The post-write fixup of wheel archives                                  *)
(***************************************************************************)
\* mode=None
ModeNone == NotYet

\* A slip that patches the first entry of the list, not the last.
fix_first_zipinfo(fl, mode) ==
    LET zipinfo == fl[1]
        md == IF mode = ModeNone
              THEN normalize_mode(WideShiftRight16(zipinfo.external_attr))
              ELSE mode
        attr == WideOr(WideAndFFFF(zipinfo.external_attr), ShiftLeft16(md))
    IN  [fl EXCEPT ![1].external_attr = attr]

\* A slip that stores the shifted mode alone, without the lower half.
fix_last_zipinfo_modeonly(fl, mode) ==
    LET zipinfo == fl[Len(fl)]
        md == IF mode = ModeNone
              THEN normalize_mode(WideShiftRight16(zipinfo.external_attr))
              ELSE mode
    IN  [fl EXCEPT ![Len(fl)].external_attr = ShiftLeft16(md)]

\* _fix_last_zipinfo(zipfile, mode): the entry list it leaves
fix_last_zipinfo(fl, mode) ==
    LET zipinfo == fl[Len(fl)]                      \* zipfile.filelist[-1]
        md == IF mode = ModeNone
              THEN normalize_mode(WideShiftRight16(zipinfo.external_attr))
              ELSE mode
        attr == WideOr(WideAndFFFF(zipinfo.external_attr), ShiftLeft16(md))
    IN  [fl EXCEPT ![Len(fl)].external_attr = attr]

\* WheelFile_writestr(self, ...): the entry list it leaves when the wrapped
\* writestr appends zinfo
writestr_fixed(fl, zinfo) ==
    fix_last_zipinfo(Append(fl, zinfo), O100644)

\* self.writestr(...), as the class binds it when the call is made
bound_writestr(fl, zinfo) ==
    IF wheel_attr.writestr = WheelFile_writestr
    THEN writestr_fixed(fl, zinfo)
    ELSE Append(fl, zinfo)

\* The entries the wrapped writers append: any 16-bit mode in the upper half
\* of external_attr (0: none recorded), and the MS-DOS directory flag or
\* nothing in the lower half.
\* 0, 0o600, 0o100640, 0o100755, 0o100700, 0o040750, 0o104711, 0o100666
WrittenModes == {0, 384, 33184, 33261, 33216, 16872, 35273, 33206}
NewZipInfos ==
    { [filename |-> f, external_attr |-> Wide(md, low), file_size |-> 7] :
        f \in {"pkg/a.py", "pkg/RECORD"}, md \in WrittenModes, low \in {0, 16} }

WheelInit ==
    /\ filelist = <<>>
    /\ written_by = <<>>
    /\ fix_before = <<>>

WheelIdle == WheelInit

\* WheelFile.write(...) with the hook installed. The wrapped write appends
\* one entry, itself or through self.writestr, or raises before it appends.
call_WheelFile_write ==
    /\ wheel_attr.write = WheelFile_write
    /\ Len(filelist) < MaxEntries
    /\ \E zinfo \in NewZipInfos, through_writestr \in BOOLEAN, raises \in BOOLEAN :
          IF raises
          THEN UNCHANGED wheelVars
          ELSE LET written == IF through_writestr
                              THEN bound_writestr(filelist, zinfo)
                              ELSE Append(filelist, zinfo)
               IN  /\ fix_before' = written
                   /\ filelist' = fix_last_zipinfo(written, ModeNone)
                   /\ written_by' = Append(written_by, "write")
    /\ UNCHANGED <<modeVars, statVars, installVars, walkVars, buildVars>>

\* WheelFile.writestr(...) with the hook installed.
call_WheelFile_writestr ==
    /\ wheel_attr.writestr = WheelFile_writestr
    /\ Len(filelist) < MaxEntries
    /\ \E zinfo \in NewZipInfos, raises \in BOOLEAN :
          IF raises
          THEN UNCHANGED wheelVars
          ELSE /\ fix_before' = Append(filelist, zinfo)
               /\ filelist' = writestr_fixed(filelist, zinfo)
               /\ written_by' = Append(written_by, "writestr")
    /\ UNCHANGED <<modeVars, statVars, installVars, walkVars, buildVars>>

NextWheel ==
    \/ call_WheelFile_write
    \/ call_WheelFile_writestr

(***************************************************************************)
(* os_listdir, os_walk                                                     *)
(***************************************************************************)
\* File and directory names are numbers, ordered as the names they stand for
\* are ordered by Python's sort.
NameLess(a, b) == a < b

\* sorted(names) and list.sort()
sorted(names) == SortSeq(names, NameLess)

\* The orders in which a filesystem can return a set of names.
Orderings(S) ==
    { o \in [1 .. Cardinality(S) -> S] : \A i, j \in DOMAIN o : o[i] = o[j] => i = j }

\* A frame of the underlying os.walk(top): the directory, the two lists it
\* read and hands out with its yield, and how far its loop over dirs has come.
\*   "new"   nothing read yet
\*   "loop"  walking into dirs[i], dirs[i+1], ...
\*   "done"  suspended in its last statement
Frame(path) == [path |-> path, phase |-> "new", dirs |-> <<>>, files |-> <<>>, i |-> 1]

\* _orig_os_walk resumed: it runs until its next yield (yielded: the frame
\* on top of the stack is suspended in a yield of its path, dirs and files)
\* or until it is exhausted.
RECURSIVE orig_os_walk_resume(_, _, _)
orig_os_walk_resume(stack, order, topdown) ==
    IF stack = <<>> THEN [stack |-> <<>>, yielded |-> FALSE]
    ELSE
      LET n == Len(stack)
          f == stack[n]
      IN  CASE f.phase = "new" ->
                 LET g == [f EXCEPT !.dirs = order[f.path].dirs,
                                    !.files = order[f.path].files,
                                    !.phase = "loop"]
                 IN  IF topdown
                     THEN [stack |-> [stack EXCEPT ![n] = g], yielded |-> TRUE]
                     ELSE orig_os_walk_resume([stack EXCEPT ![n] = g], order, topdown)
            [] f.phase = "loop" ->
                 IF f.i <= Len(f.dirs)
                 THEN orig_os_walk_resume(
                          Append([stack EXCEPT ![n].i = f.i + 1],
                                 Frame(Append(f.path, f.dirs[f.i]))),
                          order, topdown)
                 ELSE IF topdown
                      THEN orig_os_walk_resume(SubSeq(stack, 1, n - 1), order, topdown)
                      ELSE [stack |-> [stack EXCEPT ![n].phase = "done"], yielded |-> TRUE]
            [] OTHER ->
                 orig_os_walk_resume(SubSeq(stack, 1, n - 1), order, topdown)

\* A slip that sorts the file names only.
os_walk_body_filesonly(frame) ==
    [frame EXCEPT !.files = sorted(frame.files)]

\* The body of os_walk's loop, on the frame whose lists the underlying walk
\* has just yielded: both lists are sorted in place, so the frame sees it.
os_walk_body(frame) ==
    [frame EXCEPT !.dirs = sorted(frame.dirs),         \* dirnames.sort()
                  !.files = sorted(frame.files)]       \* filenames.sort()

\* A slip that returns the listing as the filesystem gave it.
os_listdir_unsorted(names) == names

\* os_listdir(path), over the order the filesystem returns
os_listdir(names) == sorted(names)

DirNames == 1 .. MaxDirs
FileNames == {MaxDirs + 1, MaxDirs + 2}

\* The walked trees: a root of subdirectories and files, each subdirectory
\* holding files. A tree is given by the order of each directory's entries.
TreeOrders(rootdirs, rootfiles) ==
    { [p \in {<<>>} \cup { <<d>> : d \in rootdirs } |->
          IF p = <<>> THEN [dirs |-> od, files |-> of]
          ELSE [dirs |-> <<>>, files |-> oc[p[1]]]] :
        od \in Orderings(rootdirs), of \in Orderings(rootfiles),
        oc \in [rootdirs -> Orderings(FileNames)] }

WalkInit ==
    /\ \E rootdirs \in SUBSET DirNames, rootfiles \in SUBSET FileNames :
          w_order \in [{1, 2} -> TreeOrders(rootdirs, rootfiles)]
    /\ w_topdown \in BOOLEAN
    /\ w_run = 0
    /\ w_gen = "none"
    /\ w_stack = <<>>
    /\ w_out = [r \in {1, 2} |-> <<>>]

WalkIdle ==
    /\ w_order = [r \in {1, 2} |-> [p \in {<<>>} |-> [dirs |-> <<>>, files |-> <<>>]]]
    /\ w_topdown = TRUE
    /\ w_run = 0
    /\ w_gen = "none"
    /\ w_stack = <<>>
    /\ w_out = [r \in {1, 2} |-> <<>>]

\* os_walk(top, topdown=w_topdown): the call makes the generator, which has
\* not run yet.
call_os_walk ==
    /\ w_gen \in {"none", "exhausted"}
    /\ w_run < 2
    /\ w_run' = w_run + 1
    /\ w_gen' = "active"
    /\ w_stack' = <<Frame(<<>>)>>
    /\ UNCHANGED <<w_order, w_topdown, w_out, modeVars, statVars, installVars, wheelVars, buildVars>>

\* next() on the generator os_walk returned: the underlying walk runs to its
\* next yield, os_walk sorts the two lists and yields them on.
next_os_walk ==
    /\ w_gen = "active"
    /\ LET r == orig_os_walk_resume(w_stack, w_order[w_run], w_topdown)
           n == Len(r.stack)
       IN  IF r.yielded
           THEN LET f == os_walk_body(r.stack[n])
                IN  /\ w_stack' = [r.stack EXCEPT ![n] = f]
                    /\ w_out' = [w_out EXCEPT ![w_run] = Append(@, <<f.path, f.dirs, f.files>>)]
                    /\ w_gen' = w_gen
           ELSE /\ w_stack' = <<>>
                /\ w_out' = w_out
                /\ w_gen' = "exhausted"
    /\ UNCHANGED <<w_order, w_topdown, w_run, modeVars, statVars, installVars, wheelVars, buildVars>>

NextWalk ==
    \/ call_os_walk
    \/ next_os_walk

(***************************************************************************)
(* monkeypatch, make_tarball, make_zipfile, archive_wheelfile              *)
(***************************************************************************)
Primitives == {"listdir", "lstat", "walk", "stat"}

\* os.listdir, os.lstat, os.walk, os.stat as the module found them at import
\* (_orig_os_listdir, _orig_os_lstat, _orig_os_walk, _orig_os_stat)
Original(name) ==
    CASE name = "listdir" -> Func("os.listdir")
      [] name = "lstat" -> Func("os.lstat")
      [] name = "walk" -> Func("os.walk")
      [] name = "stat" -> Func("os.stat")

\* os_listdir, os_lstat, os_walk, os_stat
Substitute(name) ==
    CASE name = "listdir" -> Func("distutils644.os_listdir")
      [] name = "lstat" -> Func("distutils644.os_lstat")
      [] name = "walk" -> Func("distutils644.os_walk")
      [] name = "stat" -> Func("distutils644.os_stat")

\* A function that other code has bound to a primitive before a build.
Foreign(name) == Func("foreign")

\* The monkeypatch scopes each function opens, outermost first.
Scopes(fn) ==
    CASE fn = "make_tarball" -> <<"listdir", "lstat">>
      [] fn = "make_zipfile" -> <<"walk", "stat">>
      [] fn = "archive_wheelfile" -> <<"stat">>

\* The primitive through which each archive writer lists and stats.
ListName(fn) == IF fn = "make_tarball" THEN "listdir" ELSE "walk"
StatName(fn) == IF fn = "make_tarball" THEN "lstat" ELSE "stat"

\* The stub module make_tarball registers as 'tarfile'.
tarfile644 == "tarfile644"

\* A frame of one call: where it is (pc), the orig_func of each scope it has
\* begun to enter, whether an exception is passing through it, the entries
\* (error names it), its archive writer has still to add, and for
\* make_tarball its copy of sys.modules and the class of the tar writer its
\* builder has opened.
\* pre is the os module as the call found it, build the number of the build
\* the call belongs to.
\*   pc: "setup" "get" "set" "body" "exit" "finally" "return"
NewFrame(fn, os, build) ==
    [fn |-> fn,
     build |-> build,
     pc |-> IF fn = "make_tarball" THEN "setup" ELSE "get",
     saved |-> <<>>,
     exc |-> FALSE,
     error |-> "none",
     todo |-> <<0>>,
     writer |-> NoFunc,
     orig_sys_modules |-> <<>>,
     pre |-> os]

Top(t) == b_stack[t][Len(b_stack[t])]
InCall(t) == b_stack[t] # <<>>
SetTop(t, f) == [b_stack EXCEPT ![t][Len(b_stack[t])] = f]

\* A monkeypatch without try/finally: an exception skips the restoration.
monkeypatch_exit_nofinally(os, name, orig_func, exc) ==
    IF exc THEN os ELSE [os EXCEPT ![name] = orig_func]

\* monkeypatch's finally clause: setattr(mod, name, orig_func)
monkeypatch_exit(os, name, orig_func, exc) ==
    [os EXCEPT ![name] = orig_func]

\* What the writer reads of a path's stat through the function bound to the
\* stat primitive: the substitutes wrap the raw record, anything else
\* returns it.
ReadStat(f, raw, attr) ==
    IF f \in {Substitute("lstat"), Substitute("stat")}
    THEN StatResult644_attribute(StatResult644(raw), attr)
    ELSE RawGetAttr(raw, attr)

\* How a call of the function bound to the stat primitive ends: the
\* substitutes as os_lstat and os_stat do, anything else as the raw lookup.
CallStat(f, outcome) ==
    IF f \in {Substitute("lstat"), Substitute("stat")}
    THEN os_stat_body(outcome)
    ELSE [ret |-> [original |-> outcome.st], err |-> outcome.err]

\* The names the writer gets for the directory through the function bound to
\* the listing primitive.
ReadNames(f, order) ==
    IF f = Substitute("listdir") THEN os_listdir(order)
    ELSE IF f = Substitute("walk")
         THEN os_walk_body([Frame(<<>>) EXCEPT !.files = order]).files
         ELSE order

\* A tar header records owner and group; a zip entry does not.
NoOwner == NotYet

\* The entry the writer adds for a path.
Entry(fn, os, name, raw) ==
    LET f == os[StatName(fn)]
    IN  [name |-> name,
         mode |-> ReadStat(f, raw, "st_mode"),
         uid |-> IF fn = "make_tarball" THEN ReadStat(f, raw, "st_uid") ELSE NoOwner,
         gid |-> IF fn = "make_tarball" THEN ReadStat(f, raw, "st_gid") ELSE NoOwner]

\* Directory trees: a root directory (name 0) of regular files. fails names
\* the error with which the raw stat of a path fails, if it does.
BuildNames == {1, 2}
Tree(uid, gid, perm, order) ==
    [root |-> <<16384 + perm, 11, 2049, 2, uid, gid, 4096, 30, 20, 10>>,
     files |-> [n \in BuildNames |-> <<32768 + perm, 12 + n, 2049, 1, uid, gid, 7, 30, 20, 10>>],
     order |-> order,
     fails |-> [n \in BuildNames \cup {0} |-> "none"]]

\* The tree with a path whose raw stat fails.
Unreadable(tree, name, err) == [tree EXCEPT !.fails[name] = err]

RawOf(tree, name) == IF name = 0 THEN tree.root ELSE tree.files[name]

\* _orig_os_lstat(path), _orig_os_stat(path)
RawOutcomeOf(tree, name) ==
    IF tree.fails[name] = "none" THEN Success(RawOf(tree, name))
    ELSE Failure(tree.fails[name])

\* The critical section a host with concurrent builds puts around each
\* build, where it has one (b_locking): a single global lock, taken before
\* the build's call and released when the call is over.
acquire_unlocked(lock, locking, t) == [ok |-> TRUE, lock |-> lock]

acquire(lock, locking, t) ==
    IF locking THEN [ok |-> lock = "free", lock |-> t]
    ELSE [ok |-> TRUE, lock |-> lock]

release(lock, locking, t) == IF locking THEN "free" ELSE lock

\* The top-level calls a packaging front end makes, one build each.
StartBuild(t, fn) ==
    /\ ~InCall(t)
    /\ b_build < Len(b_trees)
    /\ acquire(b_lock, b_locking, t).ok
    /\ b_lock' = acquire(b_lock, b_locking, t).lock
    /\ b_build' = b_build + 1
    /\ b_stack' = [b_stack EXCEPT ![t] = <<NewFrame(fn, os_mod, b_build + 1)>>]
    /\ b_status' = [b_status EXCEPT ![b_build + 1] =
                        [fn |-> fn, state |-> "running", format |-> "none", error |-> "none",
                         thread |-> t, modules |-> sys_modules]]
    /\ b_archive' = b_archive
    /\ UNCHANGED <<os_mod, func_original, sys_modules, b_trees, b_locking, nestVars>>
    /\ UNCHANGED <<modeVars, statVars, installVars, wheelVars, walkVars>>

\* make_tarball(...), as registered for the tar formats
call_make_tarball ==
    \E t \in DOMAIN b_stack :
        /\ \E key \in DOMAIN ARCHIVE_FORMATS : ARCHIVE_FORMATS[key][1].name = "make_tarball"
        /\ StartBuild(t, "make_tarball")

\* make_zipfile(...), as registered for the zip format
call_make_zipfile ==
    \E t \in DOMAIN b_stack :
        /\ \E key \in DOMAIN ARCHIVE_FORMATS : ARCHIVE_FORMATS[key][1].name = "make_zipfile"
        /\ StartBuild(t, "make_zipfile")

\* archive_wheelfile(...), as bound in wheel.bdist_wheel
call_archive_wheelfile ==
    \E t \in DOMAIN b_stack :
        /\ wheel_attr.archive_wheelfile = archive_wheelfile
        /\ StartBuild(t, "archive_wheelfile")

\* _orig_archive_wheelfile runs the registered zip build, inside the scope
\* archive_wheelfile holds on os.stat.
wheel_calls_make_zipfile ==
    \E t \in DOMAIN b_stack :
        /\ InCall(t)
        /\ Top(t).fn = "archive_wheelfile" /\ Top(t).pc = "body" /\ Top(t).todo # <<>>
        /\ \E key \in DOMAIN ARCHIVE_FORMATS : ARCHIVE_FORMATS[key][1].name = "make_zipfile"
        /\ b_stack' = [b_stack EXCEPT ![t] =
                          Append(SetTop(t, [Top(t) EXCEPT !.todo = <<>>])[t],
                                 NewFrame("make_zipfile", os_mod, Top(t).build))]
        /\ UNCHANGED <<os_mod, func_original, sys_modules, b_trees, b_build, b_lock, b_locking, nestVars, b_archive, b_status>>
        /\ UNCHANGED <<modeVars, statVars, installVars, wheelVars, walkVars>>

\* A slip that registers the stub under its own name.
register_stub_ownname(modules) ==
    [n \in DOMAIN modules \cup {tarfile644} |->
        IF n = tarfile644 THEN tarfile644 ELSE modules[n]]

\* sys.modules['tarfile'] = tarfile_mod
register_stub(modules) ==
    [n \in DOMAIN modules \cup {"tarfile"} |->
        IF n = "tarfile" THEN tarfile644 ELSE modules[n]]

\* import name: the module sys.modules holds under the name, and otherwise
\* the module found on the path, which import registers.
Import(modules, name) ==
    IF name \in DOMAIN modules THEN modules[name] ELSE name

\* module.open of a module found as 'tarfile', for the make_tarball closure
\* of install() call gen: the stub's open is TarFile644.open, whose writers
\* are TarFile644 objects; the stock open makes TarFile objects.
OpenClass(module, gen) ==
    IF module = tarfile644 THEN TarFile644(gen) ELSE TarFile

\* The make_tarball closure the registry holds.
RegisteredTarball ==
    (CHOOSE key \in DOMAIN ARCHIVE_FORMATS :
        ARCHIVE_FORMATS[key][1].name = "make_tarball")

\* make_tarball, up to its try: the copy of sys.modules and the stub.
tarball_setup ==
    \E t \in DOMAIN b_stack :
        /\ InCall(t)
        /\ Top(t).pc = "setup"
        /\ b_stack' = SetTop(t, [Top(t) EXCEPT !.orig_sys_modules = sys_modules, !.pc = "get"])
        /\ sys_modules' = register_stub(sys_modules)
        /\ UNCHANGED <<os_mod, func_original, b_trees, b_build, b_lock, b_locking, nestVars, b_archive, b_status>>
        /\ UNCHANGED <<modeVars, statVars, installVars, wheelVars, walkVars>>

\* monkeypatch: orig_func = getattr(mod, name), for the next scope
monkeypatch_getattr ==
    \E t \in DOMAIN b_stack :
        /\ InCall(t)
        /\ Top(t).pc = "get"
        /\ LET name == Scopes(Top(t).fn)[Len(Top(t).saved) + 1]
           IN  b_stack' = SetTop(t, [Top(t) EXCEPT !.saved = Append(@, os_mod[name]),
                                                   !.pc = "set"])
        /\ UNCHANGED <<os_mod, func_original, sys_modules, b_trees, b_build, b_lock, b_locking, nestVars, b_archive, b_status>>
        /\ UNCHANGED <<modeVars, statVars, installVars, wheelVars, walkVars>>

\* monkeypatch: setattr(mod, name, func); yield
monkeypatch_setattr ==
    \E t \in DOMAIN b_stack :
        /\ InCall(t)
        /\ Top(t).pc = "set"
        /\ LET f == Top(t)
               name == Scopes(f.fn)[Len(f.saved)]
           IN  /\ os_mod' = [os_mod EXCEPT ![name] = Substitute(name)]
               /\ b_stack' = SetTop(t, [f EXCEPT !.pc =
                                 IF Len(f.saved) < Len(Scopes(f.fn)) THEN "get" ELSE "body"])
        /\ UNCHANGED <<func_original, sys_modules, b_trees, b_build, b_lock, b_locking, nestVars, b_archive, b_status>>
        /\ UNCHANGED <<modeVars, statVars, installVars, wheelVars, walkVars>>

\* distutils' make_tarball imports tarfile when it runs and opens its writer
\* with tarfile.open; the writer's format is that of its class.
body_open ==
    \E t \in DOMAIN b_stack :
        /\ InCall(t)
        /\ Top(t).pc = "body" /\ Top(t).fn = "make_tarball" /\ Top(t).writer = NoFunc
        /\ LET module == Import(sys_modules, "tarfile")
               cls == OpenClass(module, ARCHIVE_FORMATS[RegisteredTarball][1].gen)
           IN  /\ b_stack' = SetTop(t, [Top(t) EXCEPT !.writer = cls])
               /\ b_status' = [b_status EXCEPT ![Top(t).build].format = tar_classes[cls]]
               /\ sys_modules' = [n \in DOMAIN sys_modules \cup {"tarfile"} |->
                                     IF n = "tarfile" THEN module ELSE sys_modules[n]]
        /\ UNCHANGED <<os_mod, func_original, b_trees, b_build, b_lock, b_locking, nestVars, b_archive>>
        /\ UNCHANGED <<modeVars, statVars, installVars, wheelVars, walkVars>>

\* The modules the stock builders import only when they need them.
LateModules == {"gzip"}

\* The wrapped builder imports a module that is not registered yet: import
\* registers it.
body_import ==
    \E t \in DOMAIN b_stack :
        /\ InCall(t)
        /\ Top(t).pc = "body" /\ Top(t).fn # "archive_wheelfile"
        /\ \E name \in LateModules :
              /\ name \notin DOMAIN sys_modules
              /\ sys_modules' = [n \in DOMAIN sys_modules \cup {name} |->
                                    IF n = name THEN Import(sys_modules, name)
                                    ELSE sys_modules[n]]
        /\ UNCHANGED <<os_mod, func_original, b_stack, b_trees, b_build, b_lock, b_locking, nestVars,
                       b_archive, b_status>>
        /\ UNCHANGED <<modeVars, statVars, installVars, wheelVars, walkVars>>

\* The archive writer adds the next entry: it stats the path and, for the
\* directory, lists it, through whatever os binds at that moment. A stat
\* that raises ends the writer's work: the exception leaves the wrapped
\* function.
body_add ==
    \E t \in DOMAIN b_stack :
        /\ InCall(t)
        /\ Top(t).pc = "body" /\ Top(t).fn # "archive_wheelfile" /\ Top(t).todo # <<>>
        /\ Top(t).fn = "make_tarball" => Top(t).writer # NoFunc
        /\ LET f == Top(t)
               tree == b_trees[f.build]
               name == Head(f.todo)
               rest == IF name = 0
                       THEN ReadNames(os_mod[ListName(f.fn)], tree.order)
                       ELSE Tail(f.todo)
               st == CallStat(os_mod[StatName(f.fn)], RawOutcomeOf(tree, name))
           IN  IF st.err = "none"
               THEN /\ b_archive' = [b_archive EXCEPT ![f.build] =
                                        Append(@, Entry(f.fn, os_mod, name, RawOf(tree, name)))]
                    /\ b_stack' = SetTop(t, [f EXCEPT !.todo = rest])
               ELSE /\ b_archive' = b_archive
                    /\ b_stack' = SetTop(t, [f EXCEPT !.pc = "exit", !.exc = TRUE,
                                                      !.error = st.err])
        /\ UNCHANGED <<os_mod, func_original, sys_modules, b_trees, b_build, b_lock, b_locking, nestVars, b_status>>
        /\ UNCHANGED <<modeVars, statVars, installVars, wheelVars, walkVars>>

\* The wrapped function returns.
body_return ==
    \E t \in DOMAIN b_stack :
        /\ InCall(t)
        /\ Top(t).pc = "body"
        /\ Top(t).fn # "archive_wheelfile" => Top(t).todo = <<>>
        /\ b_stack' = SetTop(t, [Top(t) EXCEPT !.pc = "exit"])
        /\ UNCHANGED <<os_mod, func_original, sys_modules, b_trees, b_build, b_lock, b_locking, nestVars, b_archive, b_status>>
        /\ UNCHANGED <<modeVars, statVars, installVars, wheelVars, walkVars>>

\* The wrapped function raises, at any point of its work.
body_raise ==
    \E t \in DOMAIN b_stack :
        /\ InCall(t)
        /\ Top(t).pc = "body"
        /\ b_stack' = SetTop(t, [Top(t) EXCEPT !.pc = "exit", !.exc = TRUE,
                                               !.error = "Exception"])
        /\ UNCHANGED <<os_mod, func_original, sys_modules, b_trees, b_build, b_lock, b_locking, nestVars, b_archive, b_status>>
        /\ UNCHANGED <<modeVars, statVars, installVars, wheelVars, walkVars>>

\* The innermost open scope exits: setattr(mod, name, orig_func);
\* func.original = None
scope_exit ==
    \E t \in DOMAIN b_stack :
        /\ InCall(t)
        /\ Top(t).pc = "exit"
        /\ LET f == Top(t)
               k == Len(f.saved)
               name == Scopes(f.fn)[k]
           IN  /\ os_mod' = monkeypatch_exit(os_mod, name, f.saved[k], f.exc)
               /\ func_original' = func_original \cup {Substitute(name)}
               /\ b_stack' = SetTop(t, [f EXCEPT
                                 !.saved = SubSeq(f.saved, 1, k - 1),
                                 !.pc = IF k > 1 THEN "exit"
                                        ELSE IF f.fn = "make_tarball" THEN "finally"
                                        ELSE "return"])
        /\ UNCHANGED <<sys_modules, b_trees, b_build, b_lock, b_locking, nestVars, b_archive, b_status>>
        /\ UNCHANGED <<modeVars, statVars, installVars, wheelVars, walkVars>>

\* A finally clause that puts the saved bindings back without clearing the
\* table first.
restore_modules_noclear(modules, orig_sys_modules) ==
    [n \in DOMAIN modules \cup DOMAIN orig_sys_modules |->
        IF n \in DOMAIN orig_sys_modules THEN orig_sys_modules[n] ELSE modules[n]]

\* sys.modules.clear(); sys.modules.update(orig_sys_modules)
restore_modules(modules, orig_sys_modules) ==
    LET cleared == [n \in {} |-> n]
    IN  [n \in DOMAIN cleared \cup DOMAIN orig_sys_modules |->
            IF n \in DOMAIN orig_sys_modules THEN orig_sys_modules[n] ELSE cleared[n]]

\* make_tarball's finally: sys.modules.clear(); sys.modules.update(orig)
tarball_finally ==
    \E t \in DOMAIN b_stack :
        /\ InCall(t)
        /\ Top(t).pc = "finally"
        /\ sys_modules' = restore_modules(sys_modules, Top(t).orig_sys_modules)
        /\ b_stack' = SetTop(t, [Top(t) EXCEPT !.pc = "return"])
        /\ UNCHANGED <<os_mod, func_original, b_trees, b_build, b_lock, b_locking, nestVars, b_archive, b_status>>
        /\ UNCHANGED <<modeVars, statVars, installVars, wheelVars, walkVars>>

\* The call is over: its result or its exception goes to the caller, which
\* for a nested call is the wrapped archive_wheelfile (an exception passes
\* through it).
call_return ==
    \E t \in DOMAIN b_stack :
        /\ InCall(t)
        /\ Top(t).pc = "return"
        /\ LET f == Top(t)
               n == Len(b_stack[t])
               below == SubSeq(b_stack[t], 1, n - 1)
           IN  IF n = 1
               THEN /\ b_stack' = [b_stack EXCEPT ![t] = <<>>]
                    /\ b_lock' = release(b_lock, b_locking, t)
                    /\ b_status' = [b_status EXCEPT
                                       ![f.build].state = IF f.exc THEN "raised" ELSE "returned",
                                       ![f.build].error = f.error]
               ELSE /\ b_stack' = [b_stack EXCEPT ![t] =
                                      IF f.exc
                                      THEN [below EXCEPT ![n - 1].exc = TRUE, ![n - 1].pc = "exit",
                                                         ![n - 1].error = f.error]
                                      ELSE below]
                    /\ b_status' = b_status
                    /\ b_lock' = b_lock
        /\ UNCHANGED <<os_mod, func_original, sys_modules, b_trees, b_build, b_locking, nestVars, b_archive>>
        /\ UNCHANGED <<modeVars, statVars, installVars, wheelVars, walkVars>>

\* with monkeypatch(os, name, func) blocks nested in one another, each
\* entered and left within the one around it, to any depth up to MaxDepth.
\* A scope is where its block is (pc: "set" "body" "exit"), the orig_func it
\* holds and whether an exception is leaving its block.
MaxDepth == 3

NestIdle ==
    /\ n_stack = <<>>
    /\ n_pre = os_mod

\* A monkeypatch that keeps the function the module had when it was loaded.
monkeypatch_orig_func_loaded(os, name) == Original(name)

\* orig_func = getattr(mod, name)
monkeypatch_orig_func(os, name) == os[name]

NestTop == n_stack[Len(n_stack)]
SetNestTop(scope) == [n_stack EXCEPT ![Len(n_stack)] = scope]

\* A with block begins, at top level or in the body of the block around it:
\* monkeypatch runs to its try.
nest_getattr ==
    /\ Len(n_stack) < MaxDepth
    /\ n_stack # <<>> => NestTop.pc = "body"
    /\ \E name \in Primitives :
          n_stack' = Append(n_stack, [name |-> name,
                                      orig_func |-> monkeypatch_orig_func(os_mod, name),
                                      pc |-> "set",
                                      exc |-> FALSE])
    /\ UNCHANGED <<os_mod, func_original, sys_modules, b_stack, b_trees, b_build, b_archive,
                   b_status, b_lock, b_locking, n_pre>>
    /\ UNCHANGED <<modeVars, statVars, installVars, wheelVars, walkVars>>

\* setattr(mod, name, func); yield
nest_setattr ==
    /\ n_stack # <<>>
    /\ NestTop.pc = "set"
    /\ os_mod' = [os_mod EXCEPT ![NestTop.name] = Substitute(NestTop.name)]
    /\ n_stack' = SetNestTop([NestTop EXCEPT !.pc = "body"])
    /\ UNCHANGED <<func_original, sys_modules, b_stack, b_trees, b_build, b_archive,
                   b_status, b_lock, b_locking, n_pre>>
    /\ UNCHANGED <<modeVars, statVars, installVars, wheelVars, walkVars>>

\* The block's body ends, by reaching its end or by raising.
nest_body_ends ==
    /\ n_stack # <<>>
    /\ NestTop.pc = "body"
    /\ \E raises \in BOOLEAN :
          n_stack' = SetNestTop([NestTop EXCEPT !.pc = "exit", !.exc = raises])
    /\ UNCHANGED <<os_mod, func_original, sys_modules, b_stack, b_trees, b_build, b_archive,
                   b_status, b_lock, b_locking, n_pre>>
    /\ UNCHANGED <<modeVars, statVars, installVars, wheelVars, walkVars>>

\* The finally clause of the innermost scope; an exception goes on into the
\* body of the block around it, which catches it or lets it pass.
nest_exit ==
    /\ n_stack # <<>>
    /\ NestTop.pc = "exit"
    /\ os_mod' = monkeypatch_exit(os_mod, NestTop.name, NestTop.orig_func, NestTop.exc)
    /\ func_original' = func_original \cup {Substitute(NestTop.name)}
    /\ LET below == SubSeq(n_stack, 1, Len(n_stack) - 1)
       IN  IF NestTop.exc /\ below # <<>>
           THEN \E caught \in BOOLEAN :
                   n_stack' = IF caught THEN below
                              ELSE [below EXCEPT ![Len(below)].pc = "exit",
                                                 ![Len(below)].exc = TRUE]
           ELSE n_stack' = below
    /\ UNCHANGED <<sys_modules, b_stack, b_trees, b_build, b_archive,
                   b_status, b_lock, b_locking, n_pre>>
    /\ UNCHANGED <<modeVars, statVars, installVars, wheelVars, walkVars>>

NextNest ==
    \/ nest_getattr
    \/ nest_setattr
    \/ nest_body_ends
    \/ nest_exit

\* The state install() leaves behind where distutils offers tar and zip.
Installed ==
    /\ ARCHIVE_FORMATS =
          [key \in {"tar", "zip"} |->
              patch_format(
                  IF key = "tar" THEN <<stock_make_tarball, "compress=None", "description">>
                  ELSE <<stock_make_zipfile, "", "description">>,
                  Closure("make_tarball", 1), Closure("make_zipfile", 1))]
    /\ n_installs = 1
    /\ \E default \in DefaultFormats :
          tar_classes = define_TarFile644(StockClasses(default), 1)

BuildCommonInit ==
    /\ func_original = {}
    /\ sys_modules = [n \in {"os", "tarfile"} |-> n]
    /\ b_stack = [t \in {"main"} |-> <<>>]
    /\ b_build = 0
    /\ b_archive = [k \in DOMAIN b_trees |-> <<>>]
    /\ b_status = [k \in DOMAIN b_trees |-> [fn |-> "none", state |-> "none", format |-> "none", error |-> "none",
                                             thread |-> "none", modules |-> <<>>]]
    /\ b_lock = "free"
    /\ b_locking = FALSE
    /\ NestIdle

\* 0o640 and 0o755, and the same trees with a file that is gone when the
\* writer stats it and a directory that may not be read.
BuildTrees ==
    { Tree(1000, 1000, 416, <<2, 1>>), Tree(0, 0, 493, <<1, 2>>),
      Unreadable(Tree(1000, 1000, 416, <<2, 1>>), 1, "FileNotFoundError"),
      Unreadable(Tree(0, 0, 493, <<1, 2>>), 0, "PermissionError") }

BuildInit ==
    /\ \E bound \in [Primitives -> BOOLEAN] :
          os_mod = [name \in Primitives |->
                       IF bound[name] THEN Foreign(name) ELSE Original(name)]
    /\ b_trees \in [{1, 2} -> BuildTrees]
    /\ BuildCommonInit

BuildIdle ==
    /\ os_mod = [name \in Primitives |-> Original(name)]
    /\ b_trees = <<>>
    /\ BuildCommonInit

\* 0o640, 0o755, 0o600, 0o700: two trees of the same names, each with one
\* owner, group and permission for all its files.
ReproPerms == {416, 493, 384, 448}
ReproTrees ==
    { Tree(id, id, perm, order) :
        id \in {0, 1000}, perm \in ReproPerms, order \in Orderings(BuildNames) }

ReproInit ==
    /\ os_mod = [name \in Primitives |-> Original(name)]
    /\ b_trees \in [{1, 2} -> ReproTrees]
    /\ BuildCommonInit

\* The module tables a build may find: with tarfile registered, as the
\* import of distutils644 leaves it, with more than that, and with tarfile
\* removed again.
ModuleTables ==
    { [n \in names |-> n] : names \in {{"os"}, {"os", "tarfile"}, {"os", "tarfile", "gzip"}} }

ModulesInit ==
    /\ os_mod = [name \in Primitives |-> Original(name)]
    /\ b_trees \in [{1, 2} -> BuildTrees]
    /\ func_original = {}
    /\ sys_modules \in ModuleTables
    /\ b_stack = [t \in {"main"} |-> <<>>]
    /\ b_build = 0
    /\ b_archive = [k \in DOMAIN b_trees |-> <<>>]
    /\ b_status = [k \in DOMAIN b_trees |->
                      [fn |-> "none", state |-> "none", format |-> "none", error |-> "none",
                       thread |-> "none", modules |-> <<>>]]
    /\ b_lock = "free"
    /\ b_locking = FALSE
    /\ NestIdle

\* Two threads of a host that builds archives concurrently, with or without
\* the lock around each build.
Threads == {"main", "worker"}

ThreadsInit ==
    /\ os_mod = [name \in Primitives |-> Original(name)]
    /\ b_trees = <<Tree(1000, 1000, 416, <<2, 1>>), Tree(0, 0, 493, <<1, 2>>)>>
    /\ func_original = {}
    /\ sys_modules = [n \in {"os", "tarfile"} |-> n]
    /\ b_stack = [t \in Threads |-> <<>>]
    /\ b_build = 0
    /\ b_archive = [k \in DOMAIN b_trees |-> <<>>]
    /\ b_status = [k \in DOMAIN b_trees |->
                      [fn |-> "none", state |-> "none", format |-> "none", error |-> "none",
                       thread |-> "none", modules |-> <<>>]]
    /\ b_lock = "free"
    /\ b_locking \in BOOLEAN
    /\ NestIdle

NextBuild ==
    \/ call_make_tarball
    \/ call_make_zipfile
    \/ call_archive_wheelfile
    \/ wheel_calls_make_zipfile
    \/ tarball_setup
    \/ monkeypatch_getattr
    \/ monkeypatch_setattr
    \/ body_open
    \/ body_import
    \/ body_add
    \/ body_return
    \/ body_raise
    \/ scope_exit
    \/ tarball_finally
    \/ call_return

NextRepro ==
    \/ call_make_tarball
    \/ call_make_zipfile
    \/ tarball_setup
    \/ monkeypatch_getattr
    \/ monkeypatch_setattr
    \/ body_open
    \/ body_import
    \/ body_add
    \/ body_return
    \/ body_raise
    \/ scope_exit
    \/ tarball_finally
    \/ call_return

(***************************************************************************)
(* The specifications.                                                     *)
(***************************************************************************)
InitMode ==
    /\ ModeInit
    /\ StatIdle
    /\ InstallIdle
    /\ WheelIdle
    /\ WalkIdle
    /\ BuildIdle
    /\ WheelIdle
    /\ WalkIdle
    /\ BuildIdle

SpecMode == InitMode /\ [][NextMode]_vars

InitStat ==
    /\ ModeIdle
    /\ StatInit
    /\ InstallIdle
    /\ WheelIdle
    /\ WalkIdle
    /\ BuildIdle
    /\ WheelIdle
    /\ WalkIdle
    /\ BuildIdle

SpecStat == InitStat /\ [][NextStat]_vars

InitInstall ==
    /\ ModeIdle
    /\ StatIdle
    /\ InstallInit
    /\ WheelIdle
    /\ WalkIdle
    /\ BuildIdle

SpecInstall == InitInstall /\ [][NextInstall]_vars

\* The state after install() where wheel offers WheelFile.write / writestr.
InitWheel ==
    /\ ModeIdle
    /\ StatIdle
    /\ ARCHIVE_FORMATS = [n \in {"zip"} |-> <<Closure("make_zipfile", 1), "", "description">>]
    /\ wheel_mode = "wheelfile"
    /\ wheel_attr = install_wheel("wheelfile", WheelOriginal("wheelfile"))
    /\ n_installs = 1
    /\ tar_classes = define_TarFile644(StockClasses("GNU_FORMAT"), 1)
    /\ WheelInit
    /\ WalkIdle
    /\ BuildIdle

SpecWheel == InitWheel /\ [][NextWheel]_vars

InitWalk ==
    /\ ModeIdle
    /\ StatIdle
    /\ InstallIdle
    /\ WheelIdle
    /\ WalkInit
    /\ BuildIdle

SpecWalk == InitWalk /\ [][NextWalk]_vars

\* After install(), with the legacy wheel whose archive_wheelfile is wrapped.
InitBuild ==
    /\ ModeIdle
    /\ StatIdle
    /\ Installed
    /\ wheel_mode = "legacy"
    /\ wheel_attr = install_wheel("legacy", WheelOriginal("legacy"))
    /\ WheelIdle
    /\ WalkIdle
    /\ BuildInit

SpecBuild == InitBuild /\ [][NextBuild]_vars

\* After install(), without wheel.
InitRepro ==
    /\ ModeIdle
    /\ StatIdle
    /\ Installed
    /\ wheel_mode = "absent"
    /\ wheel_attr = WheelOriginal("absent")
    /\ WheelIdle
    /\ WalkIdle
    /\ ReproInit

SpecRepro == InitRepro /\ [][NextRepro]_vars

\* After install(), without wheel, for any module table.
InitModules ==
    /\ ModeIdle
    /\ StatIdle
    /\ Installed
    /\ wheel_mode = "absent"
    /\ wheel_attr = WheelOriginal("absent")
    /\ WheelIdle
    /\ WalkIdle
    /\ ModulesInit

SpecModules == InitModules /\ [][NextRepro]_vars

\* Nested scopes, over any bindings that other code has made before.
InitNest ==
    /\ ModeIdle
    /\ StatIdle
    /\ InstallIdle
    /\ WheelIdle
    /\ WalkIdle
    /\ \E bound \in [Primitives -> BOOLEAN] :
          os_mod = [name \in Primitives |->
                       IF bound[name] THEN Foreign(name) ELSE Original(name)]
    /\ b_trees = <<>>
    /\ BuildCommonInit

SpecNest == InitNest /\ [][NextNest]_vars

\* After install(), with builds on two threads.
InitThreads ==
    /\ ModeIdle
    /\ StatIdle
    /\ Installed
    /\ wheel_mode = "legacy"
    /\ wheel_attr = install_wheel("legacy", WheelOriginal("legacy"))
    /\ WheelIdle
    /\ WalkIdle
    /\ ThreadsInit

SpecThreads == InitThreads /\ [][NextBuild]_vars

(***************************************************************************)
(* C1                                                                      *)
(***************************************************************************)
\* C1 (as claimed): for every raw mode m, file-type and setuid/setgid/sticky
\* bits included, normalize_mode(m) is 0o644 or 0o755.
C1_AllModesIn644Or755 ==
    m_once # NotYet => m_once \in {O644, O755}

\* C1 (amended): the low 9 bits of normalize_mode(m) are 0o644 or 0o755, and
\* the bits of m above the low 9 bits are carried over unchanged.
C1_PermBitsIn644Or755 ==
    m_once # NotYet =>
        /\ m_once % (PermMask + 1) \in {O644, O755}
        /\ m_once \div (PermMask + 1) = m_in \div (PermMask + 1)

\* A regular file of mode 0o100640 has been normalized to 0o100644.
C1_Witness ==
    /\ m_in = 33184
    /\ m_once = 33188

(***************************************************************************)
(* C2                                                                      *)
(***************************************************************************)
BothBuilt ==
    /\ b_status[1].state = "returned"
    /\ b_status[2].state = "returned"
    /\ b_status[1].fn = b_status[2].fn

\* Every file of the tree has this owner, group and permission.
TreeIs(tree, uid, gid, perm) ==
    \A n \in BuildNames :
        /\ tree.files[n][ST_UID + 1] = uid
        /\ tree.files[n][ST_GID + 1] = gid
        /\ tree.files[n][ST_MODE + 1] % (PermMask + 1) = perm

SameExceptMode(a, b) ==
    /\ Len(a) = Len(b)
    /\ \A i \in DOMAIN a :
          /\ a[i].name = b[i].name
          /\ a[i].uid = b[i].uid
          /\ a[i].gid = b[i].gid

\* C2 (as claimed): a tree built once with every file owned by 1000:1000
\* with permission 0640 and once by 0:0 with permission 0755 gives identical
\* archives: the same entries with the same mode, owner and group.
C2_Archives0640And0755Identical ==
    (/\ BothBuilt
     /\ TreeIs(b_trees[1], 1000, 1000, 416)
     /\ TreeIs(b_trees[2], 0, 0, 493))
        => b_archive[1] = b_archive[2]

\* C2 (amended): two builds of the same names, whatever their owners, groups
\* and permissions, give the same sequence of entries with the same owner and
\* group; the recorded modes are the same too when the two permissions agree
\* on the owner-execute bit.
C2_ArchivesIdenticalUpToExec ==
    BothBuilt =>
        /\ SameExceptMode(b_archive[1], b_archive[2])
        /\ (\A n \in BuildNames \cup {0} :
                BitAnd(RawOf(b_trees[1], n)[ST_MODE + 1], O100)
                    = BitAnd(RawOf(b_trees[2], n)[ST_MODE + 1], O100))
              => b_archive[1] = b_archive[2]

\* Two tar builds have returned: one of a tree owned by 1000:1000 with
\* permission 0640 that the filesystem lists as 2, 1, one of a tree owned by
\* 0:0 with permission 0600 that it lists as 1, 2.
C2_Witness ==
    /\ BothBuilt
    /\ b_status[1].fn = "make_tarball"
    /\ TreeIs(b_trees[1], 1000, 1000, 416) /\ b_trees[1].order = <<2, 1>>
    /\ TreeIs(b_trees[2], 0, 0, 384) /\ b_trees[2].order = <<1, 2>>
    /\ Len(b_archive[1]) = 3
    /\ b_archive[1] = b_archive[2]

(***************************************************************************)
(* C3                                                                      *)
(***************************************************************************)
\* C3: when a call of the normalized make_tarball or make_zipfile is over,
\* having returned or raised, each primitive it substituted is bound to the
\* function it was bound to when the call began; and when no call is in
\* progress no primitive is bound to a substitute.
C3_PrimitivesRestored ==
    \A t \in DOMAIN b_stack :
        /\ (/\ InCall(t)
            /\ Top(t).pc = "return"
            /\ Top(t).fn \in {"make_tarball", "make_zipfile"})
              => \A i \in DOMAIN Scopes(Top(t).fn) :
                     os_mod[Scopes(Top(t).fn)[i]] = Top(t).pre[Scopes(Top(t).fn)[i]]
        /\ ~InCall(t) => \A name \in Primitives : os_mod[name] # Substitute(name)

\* A make_zipfile call that found os.walk bound to a foreign function and,
\* nested in archive_wheelfile, os.stat bound to the substitute, is over
\* after its archive writer raised.
C3_Witness ==
    \E t \in DOMAIN b_stack :
        /\ Len(b_stack[t]) = 2
        /\ Top(t).fn = "make_zipfile"
        /\ Top(t).pc = "return"
        /\ Top(t).exc
        /\ Top(t).pre["walk"] = Foreign("walk")
        /\ Top(t).pre["stat"] = Substitute("stat")
        /\ os_mod["stat"] = Substitute("stat")

(***************************************************************************)
(* C4                                                                      *)
(***************************************************************************)
\* C4: the record the substituted os.lstat / os.stat returns reports owner 0
\* and group 0 by attribute and by index, whatever the raw record holds, and
\* passes every field other than mode, uid and gid through from the raw record
\* of the lookup that was called.
C4_OwnerZeroRestPassedThrough ==
    st_ret # NoResult =>
        LET raw == st_raw[st_fn].st
        IN  /\ StatResult644_attribute(st_ret, "st_uid") = 0
            /\ StatResult644_attribute(st_ret, "st_gid") = 0
            /\ StatResult644_getitem(st_ret, ST_UID) = 0
            /\ StatResult644_getitem(st_ret, ST_GID) = 0
            /\ \A n \in StatIndexes \ {ST_MODE, ST_UID, ST_GID} :
                   StatResult644_getitem(st_ret, n) = raw[n + 1]
            /\ \A a \in StatAttrs \ {"st_mode", "st_uid", "st_gid"} :
                   StatResult644_attribute(st_ret, a) = raw[AttrIndex(a) + 1]

\* os_stat has returned the record of a file owned by 1000:65534, whose
\* lstat record (a link) differs from it.
C4_Witness ==
    /\ st_fn = "stat"
    /\ st_ret # NoResult
    /\ st_raw["stat"].ok /\ st_raw["lstat"].ok
    /\ st_raw["stat"].st[ST_UID + 1] = 1000
    /\ st_raw["stat"].st[ST_GID + 1] = 65534
    /\ st_raw["lstat"].st # st_raw["stat"].st

(***************************************************************************)
(* C5                                                                      *)
(***************************************************************************)
IsSorted(names) == \A i, j \in DOMAIN names : i < j => names[i] < names[j]

\* Every triple yielded so far holds sorted lists.
LevelsSorted ==
    \A r \in {1, 2} : \A k \in DOMAIN w_out[r] :
        IsSorted(w_out[r][k][2]) /\ IsSorted(w_out[r][k][3])

\* The subdirectories of the root were yielded in ascending order.
DescentSorted ==
    \A r \in {1, 2} : \A j, k \in DOMAIN w_out[r] :
        (j < k /\ Len(w_out[r][j][1]) = 1 /\ Len(w_out[r][k][1]) = 1)
            => w_out[r][j][1][1] < w_out[r][k][1][1]

BothWalksDone == w_run = 2 /\ w_gen = "exhausted"

\* C5 (as claimed): however os_walk is invoked, each level is yielded sorted,
\* the descent follows the sorted order, and two underlying orders of one
\* tree give the same traversal sequence.
C5_AnyInvocationSameTraversal ==
    /\ LevelsSorted
    /\ DescentSorted
    /\ BothWalksDone => w_out[1] = w_out[2]

\* C5 (amended): each level is yielded sorted however os_walk is invoked;
\* in a top-down walk the descent follows the sorted order and two
\* underlying orders of one tree give the same traversal sequence.
C5_TopDownSameTraversal ==
    /\ LevelsSorted
    /\ w_topdown => DescentSorted
    /\ (w_topdown /\ BothWalksDone) => w_out[1] = w_out[2]

\* Two top-down walks are over, of a tree whose root and subdirectories the
\* filesystem returned in different orders, neither of them sorted in both.
C5_Witness ==
    /\ w_topdown
    /\ BothWalksDone
    /\ w_order[1][<<>>].dirs = <<2, 1>>
    /\ w_order[2][<<>>].dirs = <<1, 2>>
    /\ w_order[1][<<1>>].files # w_order[2][<<1>>].files
    /\ Len(w_out[1]) = 3

(***************************************************************************)
(* C6                                                                      *)
(***************************************************************************)
\* C6: install() is idempotent: once install() has run, a further install()
\* call leaves every format's registry entry and every wheel hook as it is (no
\* handler is wrapped again or exchanged for another closure).
C6_InstallIdempotent ==
    [][n_installs >= 1 =>
          /\ ARCHIVE_FORMATS' = ARCHIVE_FORMATS
          /\ wheel_attr' = wheel_attr]_vars

\* install() has run three times over a registry holding a stock tar and a
\* stock zip handler, with the WheelFile hooks in place.
C6_Witness ==
    /\ n_installs = 3
    /\ wheel_mode = "wheelfile"
    /\ wheel_attr.write = WheelFile_write
    /\ {"tar", "zip"} \subseteq DOMAIN ARCHIVE_FORMATS
    /\ ARCHIVE_FORMATS["tar"][1] = Closure("make_tarball", 1)
    /\ ARCHIVE_FORMATS["zip"][1] = Closure("make_zipfile", 1)

(***************************************************************************)
(* C7                                                                      *)
(***************************************************************************)
\* C7: an install() call keeps the set of format names, leaves every entry
\* whose handler is neither stock writer identical, and changes nothing but
\* the handler of the entries it replaces.
C7_InstallFrame ==
    [][/\ DOMAIN ARCHIVE_FORMATS' = DOMAIN ARCHIVE_FORMATS
       /\ \A key \in DOMAIN ARCHIVE_FORMATS :
            /\ ARCHIVE_FORMATS[key][1] \notin {stock_make_tarball, stock_make_zipfile}
                  => ARCHIVE_FORMATS'[key] = ARCHIVE_FORMATS[key]
            /\ Tail(ARCHIVE_FORMATS'[key]) = Tail(ARCHIVE_FORMATS[key])]_vars

\* install() has replaced the stock tar handler of an entry, beside an entry
\* of another handler that it kept.
C7_Witness ==
    /\ n_installs = 1
    /\ {"gztar", "7z"} \subseteq DOMAIN ARCHIVE_FORMATS
    /\ ARCHIVE_FORMATS["gztar"] = <<Closure("make_tarball", 1), "compress=gzip", "description">>
    /\ ARCHIVE_FORMATS["7z"][1] = other_handler

(***************************************************************************)
(* C8                                                                      *)
(***************************************************************************)
\* The mode an entry records: the upper 16 bits of its external attributes.
EntryMode(zipinfo) == WideShiftRight16(zipinfo.external_attr)

\* C8: with the fixup hooks installed, after any sequence of write and
\* writestr calls every entry of the list has a normalized mode (owner read
\* and write set, group and other write clear, group and other execute set
\* exactly when owner execute is), and an entry that writestr appended has
\* mode 0o100644.
C8_EveryEntryNormalized ==
    \A i \in 1 .. Len(filelist) :
        LET md == EntryMode(filelist[i])
        IN  /\ BitAnd(md, 384) = 384
            /\ BitAnd(md, 18) = 0
            /\ BitAnd(md, O011) = (IF BitAnd(md, O100) # 0 THEN O011 ELSE 0)
            /\ written_by[i] = "writestr" => md = O100644

\* Three entries: an executable file added by write, a byte string added by
\* writestr, and last a directory added by write, whose mode 0o040750 the
\* fixup has made 0o040755 (no writer hands that mode in).
C8_Witness ==
    /\ Len(filelist) = 3
    /\ written_by = <<"write", "writestr", "write">>
    /\ EntryMode(filelist[1]) = 33261
    /\ EntryMode(filelist[2]) = O100644
    /\ filelist[3].external_attr = Wide(16877, 16)

(***************************************************************************)
(* C9                                                                      *)
(***************************************************************************)
\* C9: normalize_mode(m) has the execute bit set for group and for other if
\* and only if the owner-execute bit of m is set, and the owner-execute bit
\* of the result is that of m.
C9_ExecFollowsOwner ==
    m_once # NotYet =>
        /\ (BitAnd(m_once, O011) = O011) <=> (BitAnd(m_in, O100) # 0)
        /\ (BitAnd(m_once, O011) = 0) <=> (BitAnd(m_in, O100) = 0)
        /\ BitAnd(m_once, O100) = BitAnd(m_in, O100)

\* Mode 0o700 (owner-execute only) has become 0o755, and so has gained
\* execute for group and other.
C9_Witness ==
    /\ m_in = 448
    /\ m_once = 493

(***************************************************************************)
(* C10                                                                     *)
(***************************************************************************)
\* C10: normalize_mode is idempotent: applying it to its own result gives
\* that result again.
C10_Idempotent ==
    m_twice # NotYet => m_twice = m_once

\* A mode that the first call changed (0o4711 -> 0o4755) has been normalized
\* a second time.
C10_Witness ==
    /\ m_in = 2505
    /\ m_once = 2541
    /\ m_twice # NotYet

(***************************************************************************)
(* C11                                                                     *)
(***************************************************************************)
\* Some frame on some stack runs fn.
InsideCall(fn) ==
    \E t \in DOMAIN b_stack :
        \E i \in DOMAIN b_stack[t] : b_stack[t][i].fn = fn

\* C11: in every normalized make_tarball call the tar writer that the builder
\* opens has the ustar format, the stock writer class keeps the format it
\* had, and while no make_tarball call runs the name 'tarfile' resolves to
\* the stock module.
C11_TarWriterIsUstar ==
    /\ \A t \in DOMAIN b_stack :
          \A i \in DOMAIN b_stack[t] :
              (b_stack[t][i].fn = "make_tarball" /\ b_stack[t][i].writer # NoFunc)
                  => tar_classes[b_stack[t][i].writer] = "USTAR_FORMAT"
    /\ \A b \in DOMAIN b_status :
          (b_status[b].fn = "make_tarball" /\ b_status[b].state = "returned")
              => b_status[b].format = "USTAR_FORMAT"
    /\ tar_classes[TarFile] \in DefaultFormats
    /\ ~InsideCall("make_tarball") => Import(sys_modules, "tarfile") = "tarfile"

\* A tar build has returned with a ustar writer, the stock class still has
\* its default format and 'tarfile' is the stock module again.
C11_Witness ==
    /\ \E b \in DOMAIN b_status :
          /\ b_status[b].fn = "make_tarball"
          /\ b_status[b].state = "returned"
          /\ b_status[b].format = "USTAR_FORMAT"
    /\ ~InsideCall("make_tarball")
    /\ tar_classes[TarFile] \in DefaultFormats
    /\ sys_modules["tarfile"] = "tarfile"

(***************************************************************************)
(* C12                                                                     *)
(***************************************************************************)
\* The paths of a tree whose raw stat fails.
Failing(tree) == { n \in DOMAIN tree.fails : tree.fails[n] # "none" }

\* C12: when the raw stat of a path fails, the substituted os.lstat and
\* os.stat produce no normalized record for it and raise that failure, and
\* the failure leaves the archive-build call as it was raised: the build
\* does not return normally, and the exception it ends with, or that passes
\* through any of its frames, is the raw lookup's own.
C12_StatFailurePropagates ==
    /\ \A b \in DOMAIN b_status :
          LET failing == Failing(b_trees[b])
          IN  /\ \A i \in DOMAIN b_archive[b] : b_archive[b][i].name \notin failing
              /\ (b_status[b].state = "returned" /\ b_archive[b] # <<>>) => failing = {}
              /\ (b_status[b].state = "returned" /\ b_status[b].fn # "archive_wheelfile")
                    => failing = {}
              /\ b_status[b].error \in Errors
                    => /\ b_status[b].state = "raised"
                       /\ \E n \in failing : b_status[b].error = b_trees[b].fails[n]
    /\ \A t \in DOMAIN b_stack :
          \A i \in DOMAIN b_stack[t] :
              b_stack[t][i].error \in Errors
                  => /\ b_stack[t][i].exc
                     /\ \E n \in Failing(b_trees[b_stack[t][i].build]) :
                           b_stack[t][i].error = b_trees[b_stack[t][i].build].fails[n]

\* A build through the wheel's archive_wheelfile, whose nested zip build
\* wrote the directory and then met the file that is gone, has raised
\* FileNotFoundError.
C12_Witness ==
    \E b \in DOMAIN b_status :
        /\ b_status[b].fn = "archive_wheelfile"
        /\ b_status[b].state = "raised"
        /\ b_status[b].error = "FileNotFoundError"
        /\ b_trees[b].fails[1] = "FileNotFoundError"
        /\ Len(b_archive[b]) = 1

(***************************************************************************)
(* C13                                                                     *)
(***************************************************************************)
\* Every build that was started is over.
AllFinished ==
    /\ b_build > 0
    /\ \A t \in DOMAIN b_stack : b_stack[t] = <<>>

AllOriginal == \A name \in Primitives : os_mod[name] = Original(name)

\* C13: where every build runs inside the one global lock, once all builds
\* of all threads are over every primitive is bound to its original
\* function, whatever the interleaving; the lock is what this rests on, as
\* the same builds without it can end with a primitive bound to its
\* substitute.
C13_LockedBuildsRestore ==
    (b_locking /\ AllFinished) => AllOriginal

\* Under the lock, two threads have each run a build substituting os.stat,
\* one of them ending in an exception, and both are over.
C13_Witness ==
    /\ b_locking
    /\ AllFinished
    /\ AllOriginal
    /\ b_build = Len(b_trees)
    /\ b_status[1].thread # b_status[2].thread
    /\ b_status[1].fn = "archive_wheelfile" /\ b_status[1].state = "raised"
    /\ b_status[2].fn = "make_zipfile" /\ b_status[2].state = "returned"

\* Without the lock every primitive would be restored as well: this is what
\* the second half of C13 denies.
C13_UnlockedBuildsRestore ==
    (~b_locking /\ AllFinished) => AllOriginal

(***************************************************************************)
(* C14                                                                     *)
(***************************************************************************)
\* The module table binds exactly what the table before does.
SameBindings(modules, before) ==
    /\ DOMAIN modules = DOMAIN before
    /\ \A n \in DOMAIN before : modules[n] = before[n]

\* The table as make_tarball must leave it, given the table it found:
\* 'tarfile' as before or absent, the stub under no name, and no name that
\* was first registered during the call.
ModulesAsBefore(before) ==
    /\ SameBindings(sys_modules, before)
    /\ "tarfile" \in DOMAIN before => sys_modules["tarfile"] = before["tarfile"]
    /\ "tarfile" \notin DOMAIN before => "tarfile" \notin DOMAIN sys_modules
    /\ \A n \in DOMAIN sys_modules : sys_modules[n] # tarfile644
    /\ \A n \in LateModules : n \notin DOMAIN before => n \notin DOMAIN sys_modules

\* C14: when a normalized make_tarball call is about to hand its result or
\* its exception to its caller, and when it has done so and nothing has run
\* since, sys.modules holds exactly the bindings it held when the call
\* started.
C14_ModuleTableRestored ==
    /\ \A t \in DOMAIN b_stack :
          \A i \in DOMAIN b_stack[t] :
              (b_stack[t][i].fn = "make_tarball" /\ b_stack[t][i].pc = "return")
                  => ModulesAsBefore(b_status[b_stack[t][i].build].modules)
    /\ (AllFinished /\ b_status[b_build].fn = "make_tarball")
          => ModulesAsBefore(b_status[b_build].modules)

\* A make_tarball call that found 'tarfile' unregistered, opened its
\* writer through the stub and met a stat that failed has raised, and the
\* table is as it was: only 'os' is registered.
C14_Witness ==
    /\ AllFinished
    /\ b_status[b_build].fn = "make_tarball"
    /\ b_status[b_build].state = "raised"
    /\ b_status[b_build].error = "FileNotFoundError"
    /\ b_status[b_build].format = "USTAR_FORMAT"
    /\ DOMAIN b_status[b_build].modules = {"os"}
    /\ DOMAIN sys_modules = {"os"}

(***************************************************************************)
(* C15                                                                     *)
(***************************************************************************)
\* C15: a fixup leaves the entry list with the length and order it had,
\* every earlier entry as it was, and of the last entry every field but
\* external_attr and the low 16 bits of external_attr as they were: only
\* the upper 16 bits of the last entry's external_attr may differ.
C15_FixupTouchesOnlyModeOfLast ==
    /\ Len(filelist) = Len(fix_before)
    /\ \A i \in DOMAIN filelist :
          /\ DOMAIN filelist[i] = DOMAIN fix_before[i]
          /\ \A field \in DOMAIN filelist[i] \ {"external_attr"} :
                filelist[i][field] = fix_before[i][field]
          /\ WideAndFFFF(filelist[i].external_attr) = WideAndFFFF(fix_before[i].external_attr)
          /\ i < Len(filelist) => filelist[i] = fix_before[i]

\* A fixup has rewritten the mode of the last of several entries, whose
\* external_attr has a lower half that is not zero.
C15_Witness ==
    /\ Len(filelist) > 1
    /\ Len(fix_before) = Len(filelist)
    /\ filelist[Len(filelist)] # fix_before[Len(filelist)]
    /\ WideAndFFFF(filelist[Len(filelist)].external_attr) # Wide(0, 0)
    /\ written_by[Len(filelist)] = "write"

(***************************************************************************)
(* C16                                                                     *)
(***************************************************************************)
\* The scopes on a primitive that have bound their substitute and have not
\* yet run their finally clause.
ActiveScopes(name) ==
    { i \in DOMAIN n_stack : n_stack[i].name = name /\ n_stack[i].pc \in {"body", "exit"} }

\* C16: with scopes on one primitive nested properly, to any depth, the
\* primitive is bound to the substitute as long as any of them, and so the
\* outermost, has not exited, and is bound to the function it had before
\* the outermost was entered once that has exited.
C16_NestedScopesKeepSubstitute ==
    \A name \in Primitives :
        /\ ActiveScopes(name) # {} => os_mod[name] = Substitute(name)
        /\ ActiveScopes(name) = {} => os_mod[name] = n_pre[name]

\* Scopes on os.stat are nested to the full depth over a foreign binding,
\* an inner one has already exited, the innermost is about to exit with an
\* exception, and os.stat is bound to the substitute.
C16_Witness ==
    /\ Len(n_stack) = MaxDepth
    /\ \A i \in DOMAIN n_stack : n_stack[i].name = "stat"
    /\ NestTop.pc = "exit" /\ NestTop.exc
    /\ Substitute("stat") \in func_original
    /\ n_pre["stat"] = Foreign("stat")
    /\ os_mod["stat"] = Substitute("stat")

====
